---- MODULE Spec2Model ----
(***************************************************************************)
(* Model of the two lock-file regeneration scripts:                        *)
(*   script "A" = scripts/generate-test-fixtures.py                        *)
(*   script "B" = tests/data/mkdocs-deploy/generate-pixi-locks.py          *)
(*                                                                         *)
(* The state is the filesystem the script works on (fs), the environment   *)
(* (is the pixi executable installed), the script's local variables and    *)
(* position (pc), and the sequence of system calls and log lines it has    *)
(* produced so far (log).  The scripts are sequential and no other process *)
(* is modelled: the filesystem and the environment change only through the *)
(* script and through the tool it starts.  Only the exceptions the code    *)
(* handles are modelled (FileNotFoundError, TimeoutExpired,                *)
(* CalledProcessError, errors of shutil.rmtree).                           *)
(***************************************************************************)
EXTENDS Integers, Sequences, FiniteSets

VARIABLES script, rootExists, pixiInstalled, fs, fs0, pc, pyproject_files,
          idx, success_count, failed_count, cleaned_count,
          cleanup_failed_count, result, exitStatus, log

vars == <<script, rootExists, pixiInstalled, fs, fs0, pc, pyproject_files,
          idx, success_count, failed_count, cleaned_count,
          cleanup_failed_count, result, exitStatus, log>>

\* Number of subdirectory slots under tests/data/pixi (script A).
MaxFixtures == 3

\* The hardcoded directory list of script B.
PIXI_DIRS == <<"test-pull-request-pixi", "test-release-trigger-pixi",
               "test-package-manager-commands">>

\* The directories a script can look at, by index.
Dirs(s) == IF s = "A" THEN 1..MaxFixtures ELSE 1..Len(PIXI_DIRS)

\* What a directory slot can hold before the run.  kind: "absent" (no such
\* directory), "other" (a directory without pyproject.toml), "fixture".
\* lock: "none", "old" (a lock file from before the run), "new" (written by
\* the tool during the run).  pixi: does the .pixi directory exist.
DirStates(s) ==
    {[kind |-> "absent", lock |-> "none", pixi |-> FALSE]}
    \cup (IF s = "A" THEN {[kind |-> "other", lock |-> "old", pixi |-> TRUE]}
                     ELSE {})
    \cup [kind : {"fixture"}, lock : {"none", "old"}, pixi : BOOLEAN]

Ev(op, d, arg) == [op |-> op, dir |-> d, arg |-> arg]

---------------------------------------------------------------------------
\* find_pyproject_files: [] when the fixtures root is missing, else the
\* directories matching */pyproject.toml.  The enumeration order of glob is
\* fixed to the index order: Init assigns every content to every slot, so
\* any other order is a renaming of the slots.
find_pyproject_files(fsys, root) ==
    IF ~root THEN <<>>
    ELSE SelectSeq([k \in 1..MaxFixtures |-> k],
                   LAMBDA d : fsys[d].kind = "fixture")

\* main, script A: sys.exit(1) when no pyproject.toml was found.
MainNoFilesExitZero == 0
MainNoFilesExit == 1

\* lock_file.exists() / lock_file.unlink(): the lock state the tool will see.
LockKept(l) == l
LockAfterCheck(l) == IF l # "none" THEN "none" ELSE l

\* What subprocess.run(["pixi", "install"], cwd=d) can do.  FileNotFoundError
\* is raised when the executable is not installed, and also when cwd does not
\* exist.  TimeoutExpired needs a timeout (script A only).
ToolBehaviours(installed, ds, hasTimeout) ==
    IF ~installed \/ ds.kind = "absent" THEN {"notfound"}
    ELSE {"exit0", "nonzero"} \cup (IF hasTimeout THEN {"timeout"} ELSE {})

\* The tool's effect on the directory: on exit 0 a lock file exists (an
\* existing one is kept or rewritten) and .pixi exists; a failed or timed-out
\* run may have created .pixi; a tool that was not found did nothing.
ToolEffects(res, ds) ==
    CASE res = "exit0" ->
           {[ds EXCEPT !.lock = l, !.pixi = TRUE] :
               l \in (IF ds.lock = "old" THEN {"old", "new"} ELSE {"new"})}
      [] res \in {"nonzero", "timeout"} ->
           {[ds EXCEPT !.pixi = p] : p \in {ds.pixi, TRUE}}
      [] OTHER -> {ds}

\* generate_lock_files: the counters.
SuccessInc(res) == IF res = "exit0" THEN 1 ELSE 0
FailedIncNoTimeout(res) == IF res = "nonzero" THEN 1 ELSE 0
FailedInc(res) == IF res \in {"nonzero", "timeout"} THEN 1 ELSE 0

\* generate_lock_files: except FileNotFoundError: return False.
NeverReturnsFalse(res) == FALSE
GenerateReturnsFalse(res) == res = "notfound"

\* main: if success_count > 0: cleanup_pixi_environments(...)
AlwaysCleanup(n) == TRUE
ShouldCleanup(n) == n > 0

\* main: if failed_count > 0: sys.exit(1); else the script ends, status 0.
ReportExitZero(n) == 0
ReportExit(n) == IF n > 0 THEN 1 ELSE 0

\* cleanup_pixi_environments: the three branches of the loop body.
CleanClassify(present, raised) ==
    IF present THEN (IF raised THEN "failed" ELSE "cleaned") ELSE "skipped"
CleanedInc(c) == IF c = "cleaned" THEN 1 ELSE 0
CleanFailedNotCounted(c) == 0
CleanFailedInc(c) == IF c = "failed" THEN 1 ELSE 0

\* Script B: if not dir_path.exists(): continue
B_ProcessAll(ds) == TRUE
B_ShouldProcess(ds) == ds.kind # "absent"

\* Script B: CalledProcessError and FileNotFoundError both sys.exit(1).
B_HaltsOnlyNotFound(res) == res = "notfound"
B_Halts(res) == res \in {"nonzero", "notfound"}

---------------------------------------------------------------------------
Init ==
    /\ script \in {"A", "B"}
    /\ rootExists \in (IF script = "A" THEN BOOLEAN ELSE {TRUE})
    /\ pixiInstalled \in BOOLEAN
    /\ fs \in [Dirs(script) -> DirStates(script)]
    /\ rootExists \/ \A d \in Dirs(script) : fs[d].kind = "absent"
    /\ fs0 = fs
    /\ pc = IF script = "A" THEN "start" ELSE "b_loop"
    /\ pyproject_files = <<>>
    /\ idx = 1
    /\ success_count = 0
    /\ failed_count = 0
    /\ cleaned_count = 0
    /\ cleanup_failed_count = 0
    /\ result = "none"
    /\ exitStatus = -1
    /\ log = <<>>

\* Script A, main up to the call of generate_lock_files and the head of
\* generate_lock_files.  The empty-list test of generate_lock_files itself
\* (lines 27-29) cannot fire: main has left with status 1 before the call.
A_Locate ==
    /\ script = "A" /\ pc = "start"
    /\ LET files == find_pyproject_files(fs, rootExists) IN
       /\ pyproject_files' = files
       /\ IF files = <<>>
          THEN pc' = "done" /\ exitStatus' = MainNoFilesExit
          ELSE pc' = "generate" /\ exitStatus' = exitStatus
    /\ UNCHANGED <<script, rootExists, pixiInstalled, fs, fs0, idx,
                   success_count, failed_count, cleaned_count,
                   cleanup_failed_count, result, log>>

\* Script A, one iteration of the loop of generate_lock_files; on
\* FileNotFoundError the function returns False and main exits with 1.
A_Generate(res) ==
    /\ script = "A" /\ pc = "generate"
    /\ LET d      == pyproject_files[idx]
           before == fs[d].lock
           after  == LockAfterCheck(before)
           seen   == [fs[d] EXCEPT !.lock = after]
       IN
       /\ res \in ToolBehaviours(pixiInstalled, seen, TRUE)
       /\ \E eff \in ToolEffects(res, seen) : fs' = [fs EXCEPT ![d] = eff]
       /\ log' = log
                 \o (IF after # before THEN <<Ev("unlink", d, before)>>
                                       ELSE <<>>)
                 \o <<Ev("run", d, after), Ev("exit", d, res)>>
    /\ success_count' = success_count + SuccessInc(res)
    /\ failed_count' = failed_count + FailedInc(res)
    /\ IF GenerateReturnsFalse(res)
       THEN /\ result' = "False"
            /\ pc' = "done"
            /\ exitStatus' = 1
            /\ idx' = idx
       ELSE /\ exitStatus' = exitStatus
            /\ IF idx = Len(pyproject_files)
               THEN result' = "counts" /\ pc' = "check_cleanup" /\ idx' = 1
               ELSE result' = result /\ pc' = pc /\ idx' = idx + 1
    /\ UNCHANGED <<script, rootExists, pixiInstalled, fs0, pyproject_files,
                   cleaned_count, cleanup_failed_count>>

\* Script A, main: the decision to run the cleaner.
A_CheckCleanup ==
    /\ script = "A" /\ pc = "check_cleanup"
    /\ IF ShouldCleanup(success_count)
       THEN pc' = "cleanup" /\ log' = Append(log, Ev("cleanup", 0, "start"))
       ELSE pc' = "report" /\ log' = log
    /\ UNCHANGED <<script, rootExists, pixiInstalled, fs, fs0,
                   pyproject_files, idx, success_count, failed_count,
                   cleaned_count, cleanup_failed_count, result, exitStatus>>

\* Script A, one iteration of the loop of cleanup_pixi_environments.
A_Clean(raised) ==
    /\ script = "A" /\ pc = "cleanup"
    /\ LET d       == pyproject_files[idx]
           present == fs[d].pixi
           c       == CleanClassify(present, raised)
       IN
       /\ raised => present
       /\ fs' = [fs EXCEPT ![d].pixi = IF c = "cleaned" THEN FALSE ELSE @]
       /\ log' = log
                 \o (IF present
                     THEN <<Ev("rmtree", d, IF raised THEN "raised" ELSE "ok")>>
                     ELSE <<>>)
                 \o <<Ev("clean", d, c)>>
       /\ cleaned_count' = cleaned_count + CleanedInc(c)
       /\ cleanup_failed_count' = cleanup_failed_count + CleanFailedInc(c)
    /\ IF idx = Len(pyproject_files)
       THEN pc' = "report" /\ idx' = 1
       ELSE pc' = pc /\ idx' = idx + 1
    /\ UNCHANGED <<script, rootExists, pixiInstalled, fs0, pyproject_files,
                   success_count, failed_count, result, exitStatus>>

\* Script A, main: the summary and the exit status.
A_Report ==
    /\ script = "A" /\ pc = "report"
    /\ exitStatus' = ReportExit(failed_count)
    /\ pc' = "done"
    /\ UNCHANGED <<script, rootExists, pixiInstalled, fs, fs0,
                   pyproject_files, idx, success_count, failed_count,
                   cleaned_count, cleanup_failed_count, result, log>>

\* Script B: the loop variable moves to the next name of PIXI_DIRS.
B_Advance ==
    IF idx = Len(PIXI_DIRS)
    THEN pc' = "b_finish" /\ idx' = 1
    ELSE pc' = pc /\ idx' = idx + 1

\* Script B, an iteration on a name that is not an existing directory.
B_Skip ==
    /\ script = "B" /\ pc = "b_loop"
    /\ ~B_ShouldProcess(fs[idx])
    /\ log' = Append(log, Ev("skipdir", idx, "notfound"))
    /\ B_Advance
    /\ UNCHANGED <<script, rootExists, pixiInstalled, fs, fs0,
                   pyproject_files, success_count, failed_count,
                   cleaned_count, cleanup_failed_count, result, exitStatus>>

\* Script B, an iteration that runs the tool.
B_Run(res) ==
    /\ script = "B" /\ pc = "b_loop"
    /\ B_ShouldProcess(fs[idx])
    /\ res \in ToolBehaviours(pixiInstalled, fs[idx], FALSE)
    /\ \E eff \in ToolEffects(res, fs[idx]) : fs' = [fs EXCEPT ![idx] = eff]
    /\ log' = log \o <<Ev("run", idx, fs[idx].lock), Ev("exit", idx, res)>>
    /\ IF B_Halts(res)
       THEN pc' = "done" /\ exitStatus' = 1 /\ idx' = idx
       ELSE exitStatus' = exitStatus /\ B_Advance
    /\ UNCHANGED <<script, rootExists, pixiInstalled, fs0, pyproject_files,
                   success_count, failed_count, cleaned_count,
                   cleanup_failed_count, result>>

\* Script B, after the loop: the final message; the script ends, status 0.
B_Finish ==
    /\ script = "B" /\ pc = "b_finish"
    /\ log' = Append(log, Ev("allok", 0, "printed"))
    /\ exitStatus' = 0
    /\ pc' = "done"
    /\ UNCHANGED <<script, rootExists, pixiInstalled, fs, fs0,
                   pyproject_files, idx, success_count, failed_count,
                   cleaned_count, cleanup_failed_count, result>>

Next ==
    \/ A_Locate
    \/ \E res \in {"exit0", "nonzero", "timeout", "notfound"} : A_Generate(res)
    \/ A_CheckCleanup
    \/ \E raised \in BOOLEAN : A_Clean(raised)
    \/ A_Report
    \/ B_Skip
    \/ \E res \in {"exit0", "nonzero", "notfound"} : B_Run(res)
    \/ B_Finish

Spec == Init /\ [][Next]_vars

---------------------------------------------------------------------------
\* Reading the log.
LogIdx == DOMAIN log
Events(op, d) == {k \in LogIdx : log[k].op = op /\ log[k].dir = d}
OpEvents(op) == {k \in LogIdx : log[k].op = op}
ExitEvents(res) == {k \in LogIdx : log[k].op = "exit" /\ log[k].arg \in res}
Discovered == {pyproject_files[k] : k \in DOMAIN pyproject_files}
ExitedWith(res) ==
    {d \in Discovered : \E k \in Events("exit", d) : log[k].arg \in res}

\* C1: in script A every discovered fixture is attempted at most once and
\* each attempt has exactly one outcome; either the run aborts on
\* tool-not-found and nothing more is done, or generate_lock_files returns
\* counts, and then every discovered fixture was attempted exactly once,
\* success_count is the number of fixtures whose tool exited 0, failed_count
\* the number that exited non-zero or timed out, and the two add up to the
\* number of discovered fixtures.
C1_OneOutcomePerFixture ==
    script = "A" =>
      /\ \A d \in Dirs("A") :
            /\ Cardinality(Events("run", d)) <= 1
            /\ Cardinality(Events("exit", d)) = Cardinality(Events("run", d))
            /\ d \notin Discovered => Events("run", d) = {}
      /\ (pc \notin {"start", "generate"} /\ pyproject_files # <<>>)
            => result \in {"False", "counts"}
      /\ result = "False" =>
            /\ pc = "done"
            /\ log[Len(log)] = Ev("exit", pyproject_files[idx], "notfound")
            /\ \A k \in DOMAIN pyproject_files :
                  k > idx => /\ Events("run", pyproject_files[k]) = {}
                             /\ Events("unlink", pyproject_files[k]) = {}
      /\ result = "counts" =>
            /\ \A d \in Discovered : Cardinality(Events("run", d)) = 1
            /\ ExitEvents({"notfound"}) = {}
            /\ success_count = Cardinality(ExitedWith({"exit0"}))
            /\ failed_count = Cardinality(ExitedWith({"nonzero", "timeout"}))
            /\ success_count + failed_count = Len(pyproject_files)

C1_Witness ==
    /\ script = "A" /\ result = "counts"
    /\ success_count >= 1
    /\ ExitEvents({"nonzero"}) # {}
    /\ ExitEvents({"timeout"}) # {}

\* C2 (as stated, both scripts): the tool is never started in a directory
\* that still holds the lock file from before the run.
C2_Original_NoRunWithOldLock ==
    \A k \in OpEvents("run") : log[k].arg # "old"

\* C2 (amended, script A only): the tool is never started in a directory
\* that still holds the lock file from before the run, and where a lock file
\* existed before the run the script has deleted it before starting the tool.
C2_A_LockDeletedBeforeRun ==
    script = "A" =>
      \A k \in OpEvents("run") :
         /\ log[k].arg = "none"
         /\ fs0[log[k].dir].lock = "old" =>
               \E j \in Events("unlink", log[k].dir) : j < k

C2_Witness ==
    /\ script = "A"
    /\ \E k \in ExitEvents({"exit0"}) : fs0[log[k].dir].lock = "old"

\* C3: in both scripts, when the tool executable is not found the attempt on
\* the first attempted fixture is the last thing the script does: it is the
\* only attempt, nothing is deleted or started afterwards, no other directory
\* is changed, the cleaner does not run, the success message is not printed,
\* and the exit status is 1.
C3_AbortOnToolNotFound ==
    /\ ~pixiInstalled => Cardinality(OpEvents("run")) <= 1
    /\ \A k \in ExitEvents({"notfound"}) :
          /\ k = Len(log)
          /\ OpEvents("run") = {k - 1}
          /\ pc = "done"
          /\ exitStatus = 1
          /\ OpEvents("cleanup") \cup OpEvents("rmtree") \cup
             OpEvents("clean") \cup OpEvents("allok") = {}
          /\ \A d \in Dirs(script) : d # log[k].dir => fs[d] = fs0[d]

C3_Witness ==
    /\ script = "A"
    /\ ExitEvents({"notfound"}) # {}
    /\ Len(pyproject_files) >= 2
    /\ \E d \in Discovered : fs[d].lock = "old"

\* C4: script A ends with exit status 1 exactly when no manifest file was
\* found, or the tool is missing, or some fixture exited non-zero or timed
\* out, and with 0 otherwise; the cleaner's results play no part.
C4_ExitStatus ==
    (script = "A" /\ pc = "done") =>
      /\ exitStatus \in {0, 1}
      /\ exitStatus = 1 <=>
           \/ ~rootExists
           \/ \A d \in Dirs("A") : fs0[d].kind # "fixture"
           \/ ~pixiInstalled
           \/ ExitEvents({"nonzero", "timeout"}) # {}

C4_Witness ==
    /\ script = "A" /\ pc = "done" /\ exitStatus = 0
    /\ cleanup_failed_count > 0

\* C5: in script A the cleaner starts only after generate_lock_files has
\* returned counts with success_count > 0, that is after every discovered
\* fixture has been attempted; when no fixture succeeded, none was found
\* or the run aborted, the script deletes no .pixi directory.
C5_CleanupOnlyAfterSuccess ==
    script = "A" =>
      /\ (OpEvents("cleanup") \cup OpEvents("rmtree") \cup OpEvents("clean")
            # {}) =>
            /\ result = "counts"
            /\ success_count > 0
            /\ Cardinality(OpEvents("cleanup")) = 1
            /\ \A c \in OpEvents("cleanup") :
                  /\ \A d \in Discovered :
                        \E k \in Events("exit", d) : k < c
                  /\ \A k \in OpEvents("rmtree") \cup OpEvents("clean") :
                        c < k
      /\ (ExitEvents({"exit0"}) = {} \/ result = "False"
            \/ pyproject_files = <<>>) =>
            /\ OpEvents("rmtree") = {}
            /\ \A d \in Dirs("A") : fs0[d].pixi => fs[d].pixi

C5_Witness ==
    /\ script = "A" /\ pc = "done" /\ result = "counts"
    /\ success_count = 0
    /\ Len(pyproject_files) >= 2
    /\ \E d \in Discovered : fs[d].pixi

\* C6: in script B a non-zero exit of the tool is the last thing the script
\* does: no later directory of PIXI_DIRS is touched, the exit status is 1
\* and the final success message is not printed.
C6_B_HaltOnFirstFailure ==
    script = "B" =>
      \A k \in ExitEvents({"nonzero"}) :
         /\ k = Len(log)
         /\ pc = "done"
         /\ exitStatus = 1
         /\ OpEvents("allok") = {}
         /\ \A d \in Dirs("B") :
               d > log[k].dir =>
                  /\ Events("run", d) = {} /\ Events("skipdir", d) = {}
                  /\ fs[d] = fs0[d]

C6_Witness ==
    /\ script = "B"
    /\ Events("exit", 1) \cap ExitEvents({"exit0"}) # {}
    /\ Events("exit", 2) \cap ExitEvents({"nonzero"}) # {}
    /\ fs0[3].kind = "fixture"

\* C7: in script A, when the fixtures root does not exist,
\* find_pyproject_files returns the empty sequence and the run ends with
\* exit status 1, having started no tool and deleted nothing.
C7_MissingRoot ==
    (script = "A" /\ ~rootExists) =>
      /\ find_pyproject_files(fs, rootExists) = <<>>
      /\ pyproject_files = <<>>
      /\ pc \in {"start", "done"}
      /\ pc = "done" => exitStatus = 1
      /\ log = <<>>
      /\ fs = fs0

C7_Witness ==
    script = "A" /\ ~rootExists /\ pc = "done" /\ exitStatus = 1

\* C8: in script B a name of PIXI_DIRS that is not an existing directory is
\* logged and skipped: the tool is not started for it, the names after it are
\* still considered, and the run ends with status 0 and the success message
\* exactly when no existing directory's tool run failed or was not found.
C8_B_SkipMissingDir ==
    script = "B" =>
      /\ \A d \in Dirs("B") :
            /\ fs0[d].kind = "absent" => Events("run", d) = {}
            /\ Events("skipdir", d) # {} => fs0[d].kind = "absent"
            /\ Cardinality(Events("skipdir", d) \cup Events("run", d)) <= 1
      /\ pc = "done" =>
            /\ exitStatus \in {0, 1}
            /\ exitStatus = 1 <=> ExitEvents({"nonzero", "notfound"}) # {}
            /\ exitStatus = 1 => log[Len(log)].op = "exit"
            /\ exitStatus = 0 <=> OpEvents("allok") # {}
            /\ exitStatus = 0 =>
                  \A d \in Dirs("B") :
                     Cardinality(Events("skipdir", d) \cup Events("run", d))
                        = 1
            /\ (\A d \in Dirs("B") : fs0[d].kind = "absent")
                  => exitStatus = 0

C8_Witness ==
    /\ script = "B" /\ pc = "done" /\ exitStatus = 0
    /\ Events("skipdir", 1) # {}
    /\ Events("exit", 2) # {}
    /\ OpEvents("allok") # {}

\* C9: in script A the cleaner visits each discovered fixture at most once
\* and no other directory; each visit is classified cleaned (.pixi was there
\* and is deleted), skipped (.pixi was not there, nothing is deleted) or
\* failed (the deletion raised); once the cleaner has run to its end every
\* discovered fixture has been visited exactly once, and cleaned + skipped +
\* failed is the number of discovered fixtures.
Classified(c) == {k \in OpEvents("clean") : log[k].arg = c}

C9_CleanerVisitsAll ==
    script = "A" =>
      /\ \A d \in Dirs("A") :
            /\ Cardinality(Events("clean", d)) <= 1
            /\ Cardinality(Events("rmtree", d)) <= 1
            /\ d \notin Discovered =>
                  Events("clean", d) \cup Events("rmtree", d) = {}
      /\ \A k \in OpEvents("clean") :
            LET d == log[k].dir IN
            /\ log[k].arg \in {"cleaned", "skipped", "failed"}
            /\ log[k].arg = "cleaned" =>
                  /\ ~fs[d].pixi
                  /\ \E j \in Events("rmtree", d) : log[j].arg = "ok"
            /\ log[k].arg = "failed" =>
                  \E j \in Events("rmtree", d) : log[j].arg = "raised"
            /\ log[k].arg = "skipped" => Events("rmtree", d) = {}
      /\ cleaned_count = Cardinality(Classified("cleaned"))
      /\ cleanup_failed_count = Cardinality(Classified("failed"))
      /\ (OpEvents("cleanup") # {} /\ pc \in {"report", "done"}) =>
            /\ \A d \in Discovered : Cardinality(Events("clean", d)) = 1
            /\ cleaned_count + Cardinality(Classified("skipped"))
                 + cleanup_failed_count = Len(pyproject_files)

C9_Witness ==
    /\ script = "A" /\ pc = "done"
    /\ \E j, k \in OpEvents("clean") :
          /\ j < k
          /\ log[j].arg = "failed"
          /\ log[k].arg = "cleaned"
          /\ log[k].dir \in ExitedWith({"nonzero", "timeout"})

\* C10: in script A, when the run aborts because the tool was not found,
\* the first attempted fixture has no lock file (a lock file it had before
\* the run is gone), its .pixi directory is as before the run, and every
\* other directory is as before the run.
C10_AbortLeavesFirstLockDeleted ==
    (script = "A" /\ result = "False") =>
      LET d == pyproject_files[1] IN
      /\ idx = 1
      /\ fs[d].lock = "none"
      /\ fs[d].pixi = fs0[d].pixi
      /\ \A e \in Dirs("A") : e # d => fs[e] = fs0[e]

C10_Witness ==
    /\ script = "A" /\ result = "False"
    /\ fs0[pyproject_files[1]].lock = "old"
    /\ Len(pyproject_files) >= 2
    /\ \E e \in Discovered : fs[e].lock = "old"

====
